---- MODULE Spec2Model ----
(***************************************************************************)
(* Model of worker.py, the bot manager of BotClusters: load_config,        *)
(* start_bot run by a ThreadPoolExecutor, stop_bot and signal_handler.     *)
(***************************************************************************)
EXTENDS Integers, Sequences, FiniteSets, TLC

(* ---------------------------------------------------------------------- *)
(* Bounds                                                                  *)
(* ---------------------------------------------------------------------- *)

\* largest number of entries of config.json that is explored
MaxBots == 2

\* largest number of handles of a tracking table given to the stop sequence
MaxProcs == 3

\* number of environment variable names that are explored
MaxEnvVars == 3

\* largest length of a value of "run" that is explored
MaxRunLen == 4

\* number of launch units whose start_bot is followed statement by statement
NumUnits == 2

(* ---------------------------------------------------------------------- *)
(* Strings, as sequences of characters                                     *)
(* ---------------------------------------------------------------------- *)

\* str.startswith
StartsWith(s, p) == Len(s) >= Len(p) /\ SubSeq(s, 1, Len(p)) = p

\* the literal 'http' of line 45
HttpPrefix == <<"h", "t", "t", "p">>

HttpsUrl == <<"h", "t", "t", "p", "s", ":", "/", "/", "r">>
SshUrl == <<"s", "s", "h", ":", "/", "/", "r">>
LocalPath == <<"/", "s", "r", "v", "/", "r">>
HttpdPath == <<"h", "t", "t", "p", "d", "/", "r">>

\* the values of "source" that are explored
Sources == {HttpsUrl, SshUrl, LocalPath, HttpdPath}

(* ---------------------------------------------------------------------- *)
(* config.json                                                             *)
(* ---------------------------------------------------------------------- *)

\* the keys line 41 requires
RequiredKeys == {"source", "run", "env"}

\* an entry of the document: the keys it has and the value of "source"
\* (the empty string stands for the value of an absent key, never read)
EntryKinds ==
    {[keys |-> RequiredKeys, source |-> s] : s \in Sources}
    \cup {[keys |-> RequiredKeys \ {k},
           source |-> IF k = "source" THEN <<>> ELSE HttpsUrl] : k \in RequiredKeys}

\* a document: entries in document order; entry k has the base name k
\* (the keys of a JSON object are distinct)
Configs == UNION {[1..n -> EntryKinds] : n \in 0..MaxBots}

\* phrase.WORD_LIST
WORD_LIST == {"w1", "w2"}

\* line 41; the variant tests only source and run
HasRequiredMissingEnv(bot_config) == {"source", "run"} \subseteq bot_config.keys
HasRequired(bot_config) == \A key \in RequiredKeys : key \in bot_config.keys

\* line 45
SourceOK(bot_config) == StartsWith(bot_config.source, HttpPrefix)

\* line 39: f"{prefix} {bot_name}"
PrefixedName(w1, w2, bot_name) == <<w1, w2, bot_name>>

(* ---------------------------------------------------------------------- *)
(* State                                                                   *)
(* ---------------------------------------------------------------------- *)

VARIABLES
    config,         \* the document read from config.json
    sup_pc,         \* position of the main thread
    load_idx,       \* load_config: index of the next entry of the loop
    new_bots,       \* load_config: the local new_bots, as a sequence of items
    bots,           \* the global bots (line 55), as a sequence of items
    bot_processes,  \* the global bot_processes (line 56): name -> handle
    handlers,       \* the signals whose handler is signal_handler
    signalled,      \* a termination signal has been delivered
    ret_pc,         \* position the handler interrupted
    unwinding,      \* exception unwinding the main thread: none, SystemExit, error
    exit_kind,      \* none, ok (status 0), error (traceback), signal (killed)
    exit_cause,     \* what ended the process
    max_workers,    \* ThreadPoolExecutor._max_workers
    num_threads,    \* len(ThreadPoolExecutor._threads)
    idle_sem,       \* ThreadPoolExecutor._idle_semaphore
    work_queue,     \* ThreadPoolExecutor._work_queue
    futures,        \* the futures of line 145, in submission order
    res_idx,        \* index of the future the loop of line 147 waits for
    wstate,         \* per workload: its lifecycle state
    wresult,        \* per workload: outcome of its future
    procs,          \* the processes behind the handles of bot_processes
    stop_keys,      \* signal_handler: the names still to stop (line 132)
    stop_log,       \* stop requests sent, in order: <<kind, name, time>>
    clock,          \* time
    running_at_signal,  \* signal pending: the workloads RUNNING at its delivery
    os_environ,     \* start_bot: os.environ
    spec_env,       \* start_bot: bot_config['env']
    bot_env,        \* start_bot: the environment given to the workload's process
    run,            \* start_bot: bot_config['run']
    argv,           \* start_bot: the command of line 101 or 104
    upc,            \* per launch unit: the statement of start_bot it is at
    dirs,           \* per launch unit: the content of bot_dir
    repo,           \* per launch unit: the files of the remote repository
    wops            \* per launch unit: the operations performed, in order

vars == <<config, sup_pc, load_idx, new_bots, bots, bot_processes, handlers,
          signalled, ret_pc, unwinding, exit_kind, exit_cause, max_workers,
          num_threads, idle_sem, work_queue, futures, res_idx, wstate, wresult,
          procs, stop_keys, stop_log, clock, running_at_signal,
          os_environ, spec_env, bot_env, run, argv, upc, dirs, repo, wops>>

loadVars == <<load_idx, new_bots, bots>>
poolVars == <<max_workers, num_threads, idle_sem, work_queue, futures, res_idx>>
workVars == <<wstate, wresult>>
stopVars == <<bot_processes, procs, stop_keys, stop_log, clock>>
sigVars == <<handlers, signalled, ret_pc, running_at_signal>>
exitVars == <<unwinding, exit_kind, exit_cause>>
unitVars == <<os_environ, spec_env, bot_env, run, argv, upc, dirs, repo, wops>>

\* no start_bot is followed statement by statement
UnitIdle ==
    /\ os_environ = <<>>
    /\ spec_env = <<>>
    /\ bot_env = <<>>
    /\ run = <<>>
    /\ argv = <<>>
    /\ upc = <<>>
    /\ dirs = <<>>
    /\ repo = <<>>
    /\ wops = <<>>

N == Len(bots)
Workloads == 1..N

\* the name (identity) of workload i
Name(i) == bots[i].name

(* ---------------------------------------------------------------------- *)
(* stop_bot and the loop of signal_handler                                 *)
(* ---------------------------------------------------------------------- *)

\* the timeout of line 122
StopTimeout == 5

\* how a process reacts to SIGTERM: it exits at once, it exits shortly
\* before the timeout, or it ignores the signal
TermReactions == {"exits", "lingers", "ignores"}

\* the time a process takes to exit after SIGTERM
ExitDelay(p) == IF p.onterm = "exits" THEN 0 ELSE StopTimeout - 1

\* the state the stop sequence works on
StopState(ps, lg, clk) == [procs |-> ps, log |-> lg, clock |-> clk]

\* a stop_bot that kills after the timeout whether or not the process has
\* exited in the meantime
StopBotKillAlways(bot_name, keys, st) ==
    IF (\E k \in 1..Len(keys) : keys[k] = bot_name) /\ st.procs[bot_name].alive
    THEN StopState([st.procs EXCEPT ![bot_name].alive = FALSE],
                   st.log \o << <<"terminate", bot_name, st.clock>>,
                                <<"kill", bot_name, st.clock + StopTimeout>> >>,
                   st.clock + StopTimeout)
    ELSE st

\* stop_bot(bot_name), lines 116-128; keys is the tracking table
StopBot(bot_name, keys, st) ==
    IF \E k \in 1..Len(keys) : keys[k] = bot_name
    THEN LET p == st.procs[bot_name]
             \* line 121: Popen.terminate signals a process that has not exited
             lg1 == IF p.alive
                    THEN Append(st.log, <<"terminate", bot_name, st.clock>>)
                    ELSE st.log
         IN  IF ~p.alive
             THEN StopState(st.procs, lg1, st.clock)
             ELSE IF p.onterm # "ignores"
             \* line 122 returns when the process exits
             THEN StopState([st.procs EXCEPT ![bot_name].alive = FALSE],
                            lg1, st.clock + ExitDelay(p))
             \* lines 124-126: TimeoutExpired, then kill
             ELSE StopState([st.procs EXCEPT ![bot_name].alive = FALSE],
                            Append(lg1, <<"kill", bot_name, st.clock + StopTimeout>>),
                            st.clock + StopTimeout)
    \* line 128
    ELSE st

\* lines 132-133: for bot_name in list(bot_processes.keys()): stop_bot(bot_name)
RECURSIVE StopAll(_, _, _)
StopAll(todo, keys, st) ==
    IF todo = <<>> THEN st
    ELSE StopAll(Tail(todo), keys, StopBot(Head(todo), keys, st))

(* ---------------------------------------------------------------------- *)
(* Startup: load_config and the module level                               *)
(* ---------------------------------------------------------------------- *)

Init ==
    /\ config \in Configs
    /\ sup_pc = "load"
    /\ load_idx = 1
    /\ new_bots = <<>>
    /\ bots = <<>>
    /\ bot_processes = <<>>
    /\ handlers = {}
    /\ signalled = FALSE
    /\ ret_pc = "none"
    /\ unwinding = "none"
    /\ exit_kind = "none"
    /\ exit_cause = "none"
    /\ max_workers = 0
    /\ num_threads = 0
    /\ idle_sem = 0
    /\ work_queue = <<>>
    /\ futures = <<>>
    /\ res_idx = 1
    /\ wstate = <<>>
    /\ wresult = <<>>
    /\ procs = <<>>
    /\ stop_keys = <<>>
    /\ stop_log = <<>>
    /\ clock = 0
    /\ running_at_signal = {}
    /\ UnitIdle

\* the process ends: an uncaught exception, sys.exit, or a signal's default action
Exit(kind, cause) ==
    /\ sup_pc' = "exited"
    /\ exit_kind' = kind
    /\ exit_cause' = cause
    /\ unwinding' = "none"

\* one iteration of the loop of load_config, lines 37-50
LoadEntry ==
    /\ sup_pc = "load"
    /\ load_idx <= Len(config)
    /\ LET bot_config == config[load_idx]
       IN  IF ~HasRequired(bot_config)
           THEN Exit("error", "config") /\ UNCHANGED loadVars
           ELSE IF ~SourceOK(bot_config)
           THEN Exit("error", "config") /\ UNCHANGED loadVars
           ELSE /\ \E word1, word2 \in WORD_LIST :
                     new_bots' = Append(new_bots,
                                    [name |-> PrefixedName(word1, word2, load_idx),
                                     config |-> bot_config])
                /\ load_idx' = load_idx + 1
                /\ UNCHANGED <<bots, sup_pc, exitVars>>
    /\ UNCHANGED <<unitVars, config, poolVars, workVars, stopVars, sigVars>>

\* lines 52-56: load_config returns, bots and bot_processes are bound
LoadReturn ==
    /\ sup_pc = "load"
    /\ load_idx > Len(config)
    /\ bots' = new_bots
    /\ bot_processes' = <<>>
    /\ wstate' = [i \in 1..Len(new_bots) |-> "PENDING"]
    /\ wresult' = [i \in 1..Len(new_bots) |-> "pending"]
    /\ sup_pc' = "install_int"
    /\ UNCHANGED <<unitVars, config, load_idx, new_bots, poolVars, procs, stop_keys, stop_log,
                   clock, sigVars, exitVars>>

\* lines 137 and 138
InstallHandler ==
    /\ sup_pc \in {"install_int", "install_term"}
    /\ handlers' = handlers \cup {IF sup_pc = "install_int" THEN "SIGINT" ELSE "SIGTERM"}
    /\ sup_pc' = IF sup_pc = "install_int" THEN "install_term" ELSE "main"
    /\ UNCHANGED <<unitVars, config, loadVars, poolVars, workVars, stopVars, signalled, ret_pc,
                   running_at_signal, exitVars>>

(* ---------------------------------------------------------------------- *)
(* main and the thread pool                                                *)
(* ---------------------------------------------------------------------- *)

\* line 144: max_workers=len(bots); the variant is a pool of one thread
PoolSizeOne(n) == 1
PoolSize(n) == n

\* a workload whose start_bot is being run by a thread of the pool
Busy(i) == wstate[i] \in {"FETCHING", "INSTALLING", "RUNNING"}
BusyThreads == Cardinality({i \in Workloads : Busy(i)})

\* lines 141-144: ThreadPoolExecutor(max_workers=len(bots)) raises ValueError
\* when max_workers is 0
MainStart ==
    /\ sup_pc = "main"
    /\ IF PoolSize(N) <= 0
       THEN Exit("error", "pool") /\ UNCHANGED max_workers
       ELSE /\ max_workers' = PoolSize(N)
            /\ sup_pc' = "submit"
            /\ UNCHANGED exitVars
    /\ UNCHANGED <<unitVars, config, loadVars, num_threads, idle_sem, work_queue, futures,
                   res_idx, workVars, stopVars, sigVars>>

\* line 145, one executor.submit: the work item is queued, and a thread is
\* started unless one is idle or max_workers threads exist
Submit ==
    /\ sup_pc = "submit"
    /\ LET i == Len(futures) + 1
       IN  /\ futures' = Append(futures, i)
           /\ work_queue' = Append(work_queue, i)
           /\ IF idle_sem > 0
              THEN idle_sem' = idle_sem - 1 /\ UNCHANGED num_threads
              ELSE /\ num_threads' = IF num_threads < max_workers
                                     THEN num_threads + 1 ELSE num_threads
                   /\ UNCHANGED idle_sem
           /\ sup_pc' = IF i = N THEN "result" ELSE "submit"
    /\ UNCHANGED <<unitVars, config, loadVars, max_workers, res_idx, workVars, stopVars,
                   sigVars, exitVars>>

\* the exception classes start_bot can end with
ExceptionClasses == {"CalledProcessError", "OSError", "Exception"}

\* lines 109-114: the except clauses of start_bot
StartBotCatches(e) == e \in {"CalledProcessError", "OSError"}

\* line 150: except Exception; the variant is except OSError
MainCatchesOSError(e) == e = "OSError"
MainCatches(e) == e \in ExceptionClasses

\* lines 147-151, one iteration: future.result() returns or raises once the
\* future is done
Result ==
    /\ sup_pc = "result"
    /\ wresult[futures[res_idx]] # "pending"
    /\ LET r == wresult[futures[res_idx]]
       IN  IF r \in ExceptionClasses /\ ~MainCatches(r)
           THEN /\ unwinding' = "error"
                /\ sup_pc' = "pool_exit"
                /\ UNCHANGED res_idx
           ELSE /\ res_idx' = res_idx + 1
                /\ sup_pc' = IF res_idx = N THEN "pool_exit" ELSE "result"
                /\ UNCHANGED unwinding
    /\ UNCHANGED <<unitVars, config, loadVars, max_workers, num_threads, idle_sem, work_queue,
                   futures, workVars, stopVars, sigVars, exit_kind, exit_cause>>

\* the end of the with block (shutdown(wait=True)), and the join of the pool's
\* threads at interpreter exit: both return once every thread has ended
PoolExit ==
    /\ sup_pc = "pool_exit"
    /\ work_queue = <<>>
    /\ BusyThreads = 0
    /\ IF unwinding = "SystemExit" THEN Exit("ok", "signal_handler")
       ELSE IF unwinding = "error" THEN Exit("error", "workload")
       ELSE sup_pc' = "completed" /\ UNCHANGED exitVars
    /\ UNCHANGED <<unitVars, config, loadVars, poolVars, workVars, stopVars, sigVars>>

\* line 153 and the end of the module
Complete ==
    /\ sup_pc = "completed"
    /\ Exit("ok", "completed")
    /\ UNCHANGED <<unitVars, config, loadVars, poolVars, workVars, stopVars, sigVars>>

(* ---------------------------------------------------------------------- *)
(* start_bot, run by a thread of the pool                                  *)
(* ---------------------------------------------------------------------- *)

\* the states a workload ends in
Final == {"EXITED", "FAILED"}

\* the workload states after workload i ends in state st; the variant fails
\* the unfinished siblings of a workload that fails
EndAbortSiblings(i, st) ==
    [j \in Workloads |-> IF j = i THEN st
                         ELSE IF st = "FAILED" /\ wstate[j] \notin Final
                         THEN "FAILED" ELSE wstate[j]]
End(i, st) == [wstate EXCEPT ![i] = st]

\* start_bot returns value r or raises exception r: the future is done and
\* the thread is idle again
Finish(i, st, r) ==
    /\ wstate' = End(i, st)
    /\ wresult' = [wresult EXCEPT ![i] = r]
    /\ idle_sem' = idle_sem + 1

\* the result of an exception raised inside the try block of start_bot
Raised(e) == IF StartBotCatches(e) THEN "None" ELSE e

\* a thread takes work item i and runs lines 59-73 of start_bot, which are
\* outside the try block
Begin(i) ==
    /\ sup_pc # "exited"
    /\ work_queue # <<>>
    /\ Head(work_queue) = i
    /\ BusyThreads < num_threads
    /\ work_queue' = Tail(work_queue)
    /\ \E e \in {"none", "Exception"} :
         IF e = "none"
         THEN /\ wstate' = [wstate EXCEPT ![i] = "FETCHING"]
              /\ UNCHANGED <<wresult, idle_sem>>
         ELSE Finish(i, "FAILED", e)
    /\ UNCHANGED <<unitVars, config, sup_pc, loadVars, max_workers, num_threads, futures,
                   res_idx, stopVars, sigVars, exitVars>>

\* lines 96-104 up to the start of the workload's process: open or the
\* spawn raise OSError, or the process runs
Launch(i, e) ==
    IF e = "none"
    THEN /\ wstate' = [wstate EXCEPT ![i] = "RUNNING"]
         /\ UNCHANGED <<wresult, idle_sem>>
    ELSE Finish(i, "FAILED", Raised(e))

\* lines 75-92: the directory, git clone and the test for requirements.txt;
\* the outcome is an exception, a non-zero returncode, a clone with
\* requirements.txt, or a clone without it followed by the launch
Fetch(i) ==
    /\ sup_pc # "exited"
    /\ wstate[i] = "FETCHING"
    /\ \E out \in {"OSError", "Exception", "returncode", "requirements",
                   "launch", "launch_OSError"} :
         IF out \in ExceptionClasses THEN Finish(i, "FAILED", Raised(out))
         ELSE IF out = "returncode" THEN Finish(i, "FAILED", "None")
         ELSE IF out = "requirements"
         THEN /\ wstate' = [wstate EXCEPT ![i] = "INSTALLING"]
              /\ UNCHANGED <<wresult, idle_sem>>
         ELSE Launch(i, IF out = "launch" THEN "none" ELSE "OSError")
    /\ UNCHANGED <<unitVars, config, sup_pc, loadVars, max_workers, num_threads, work_queue,
                   futures, res_idx, stopVars, sigVars, exitVars>>

\* line 94: pip install with check=True, then the launch
Install(i) ==
    /\ sup_pc # "exited"
    /\ wstate[i] = "INSTALLING"
    /\ \E out \in {"CalledProcessError", "OSError", "launch", "launch_OSError"} :
         IF out \in ExceptionClasses THEN Finish(i, "FAILED", Raised(out))
         ELSE Launch(i, IF out = "launch" THEN "none" ELSE "OSError")
    /\ UNCHANGED <<unitVars, config, sup_pc, loadVars, max_workers, num_threads, work_queue,
                   futures, res_idx, stopVars, sigVars, exitVars>>

\* lines 101/104 return when the workload's process exits; lines 106-107
ProcessExit(i) ==
    /\ sup_pc # "exited"
    /\ wstate[i] = "RUNNING"
    /\ Finish(i, "EXITED", "log_file")
    /\ UNCHANGED <<unitVars, config, sup_pc, loadVars, max_workers, num_threads, work_queue,
                   futures, res_idx, stopVars, sigVars, exitVars>>

(* ---------------------------------------------------------------------- *)
(* Signals                                                                 *)
(* ---------------------------------------------------------------------- *)

Signals == {"SIGINT", "SIGTERM"}

\* a termination signal is delivered to the supervisor, once: its default action
\* ends the process while signal_handler is not installed for it (before
\* lines 137-138); otherwise the main thread enters signal_handler
SignalDeliver(sig) ==
    /\ sup_pc # "exited"
    /\ ~signalled
    /\ signalled' = TRUE
    /\ IF sig \in handlers
       THEN /\ ret_pc' = sup_pc
            /\ sup_pc' = "handler"
            /\ running_at_signal' = {i \in Workloads : wstate[i] = "RUNNING"}
            /\ UNCHANGED exitVars
       ELSE Exit("signal", sig) /\ UNCHANGED <<ret_pc, running_at_signal>>
    /\ UNCHANGED <<unitVars, config, loadVars, poolVars, workVars, stopVars, handlers>>

\* the positions of the main thread inside the with block of line 144, or
\* in the join that ends it
InPool(pc) == pc \in {"submit", "result", "pool_exit"}

\* signal_handler, lines 130-135: stop every tracked bot, then exit(0); the
\* SystemExit leaves the with block through shutdown(wait=True)
SignalHandler ==
    /\ sup_pc = "handler"
    /\ LET st == StopAll(bot_processes, bot_processes,
                         StopState(procs, stop_log, clock))
       IN  /\ procs' = st.procs
           /\ stop_log' = st.log
           /\ clock' = st.clock
    /\ IF InPool(ret_pc)
       THEN /\ sup_pc' = "pool_exit"
            /\ unwinding' = "SystemExit"
            /\ UNCHANGED <<exit_kind, exit_cause>>
       ELSE Exit("ok", "signal_handler")
    /\ running_at_signal' = {}
    /\ UNCHANGED <<unitVars, config, loadVars, poolVars, workVars, bot_processes, stop_keys,
                   handlers, signalled, ret_pc>>

Next ==
    \/ LoadEntry
    \/ LoadReturn
    \/ InstallHandler
    \/ MainStart
    \/ Submit
    \/ Result
    \/ PoolExit
    \/ Complete
    \/ \E i \in Workloads : Begin(i)
    \/ \E i \in Workloads : Fetch(i)
    \/ \E i \in Workloads : Install(i)
    \/ \E i \in Workloads : ProcessExit(i)
    \/ \E sig \in Signals : SignalDeliver(sig)
    \/ SignalHandler

Spec == Init /\ [][Next]_vars

\* the main thread and the threads of the pool are scheduled; the git and
\* pip subprocesses end; nothing makes a workload's own process exit
MainStep ==
    \/ LoadEntry \/ LoadReturn \/ InstallHandler \/ MainStart \/ Submit
    \/ Result \/ PoolExit \/ Complete \/ SignalHandler
WorkerStep == \E i \in Workloads : Begin(i) \/ Fetch(i) \/ Install(i)

FairSpec == Init /\ [][Next]_vars /\ WF_vars(MainStep) /\ WF_vars(WorkerStep)

(* ---------------------------------------------------------------------- *)
(* The stop sequence on a given tracking table                             *)
(* ---------------------------------------------------------------------- *)

\* the names of a tracking table of n handles
TableOf(n) == [k \in 1..n |-> PrefixedName("w1", "w1", k)]

\* signal_handler is entered with a tracking table of up to MaxProcs handles,
\* whose processes are alive or have exited, and react to SIGTERM in any way
InitStop ==
    /\ config = <<>>
    /\ sup_pc = "handler"
    /\ load_idx = 1
    /\ new_bots = <<>>
    /\ bots = <<>>
    /\ \E n \in 0..MaxProcs :
         /\ bot_processes = TableOf(n)
         /\ procs \in [{TableOf(n)[k] : k \in 1..n} ->
                          [alive : BOOLEAN, onterm : TermReactions]]
    /\ handlers = Signals
    /\ signalled = TRUE
    /\ ret_pc = "main"
    /\ unwinding = "none"
    /\ exit_kind = "none"
    /\ exit_cause = "none"
    /\ max_workers = 0
    /\ num_threads = 0
    /\ idle_sem = 0
    /\ work_queue = <<>>
    /\ futures = <<>>
    /\ res_idx = 1
    /\ wstate = <<>>
    /\ wresult = <<>>
    /\ stop_keys = <<>>
    /\ stop_log = <<>>
    /\ clock = 0
    /\ running_at_signal = {}
    /\ UnitIdle

stopFrame == <<unitVars, config, loadVars, poolVars, workVars, sigVars, bot_processes>>

\* lines 131-132: list(bot_processes.keys())
StopBegin ==
    /\ sup_pc = "handler"
    /\ stop_keys' = bot_processes
    /\ sup_pc' = "stopping"
    /\ UNCHANGED <<stopFrame, procs, stop_log, clock, exitVars>>

\* line 133, one iteration of the loop
StopNext ==
    /\ sup_pc = "stopping"
    /\ stop_keys # <<>>
    /\ LET st == StopBot(Head(stop_keys), bot_processes,
                         StopState(procs, stop_log, clock))
       IN  /\ procs' = st.procs
           /\ stop_log' = st.log
           /\ clock' = st.clock
    /\ stop_keys' = Tail(stop_keys)
    /\ UNCHANGED <<stopFrame, sup_pc, exitVars>>

\* lines 134-135
StopEnd ==
    /\ sup_pc = "stopping"
    /\ stop_keys = <<>>
    /\ Exit("ok", "signal_handler")
    /\ UNCHANGED <<stopFrame, procs, stop_keys, stop_log, clock>>

NextStop == StopBegin \/ StopNext \/ StopEnd

SpecStop == InitStop /\ [][NextStop]_vars

(* ---------------------------------------------------------------------- *)
(* start_bot, lines 62-68: the environment of the workload                 *)
(* ---------------------------------------------------------------------- *)

\* the supervisor is not followed: only statements of start_bot run
SupervisorAside ==
    /\ config = <<>>
    /\ sup_pc = "aside"
    /\ load_idx = 1
    /\ new_bots = <<>>
    /\ bot_processes = <<>>
    /\ handlers = Signals
    /\ signalled = FALSE
    /\ ret_pc = "none"
    /\ unwinding = "none"
    /\ exit_kind = "none"
    /\ exit_cause = "none"
    /\ max_workers = 0
    /\ num_threads = 0
    /\ idle_sem = 0
    /\ work_queue = <<>>
    /\ futures = <<>>
    /\ res_idx = 1
    /\ procs = <<>>
    /\ stop_keys = <<>>
    /\ stop_log = <<>>
    /\ clock = 0
    /\ running_at_signal = {}

supVars == <<config, sup_pc, loadVars, poolVars, stopVars, sigVars, exitVars>>

\* the names of environment variables
EnvNames == 1..MaxEnvVars

\* JSON values of an entry of "env": null, strings and a number
NoneValue == [type |-> "NoneType"]
StrValue(chars) == [type |-> "str", s |-> chars]
IntValue(n) == [type |-> "int", n |-> n]
EnvValues == {NoneValue, StrValue(<<>>), StrValue(<<"1">>), IntValue(0), IntValue(27)}

\* the decimal digits of a natural number
RECURSIVE Decimal(_)
Decimal(n) ==
    LET digit == <<"0", "1", "2", "3", "4", "5", "6", "7", "8", "9">>[(n % 10) + 1]
    IN  IF n < 10 THEN <<digit>> ELSE Append(Decimal(n \div 10), digit)

\* str(env_value), line 67
Str(v) == IF v.type = "str" THEN v.s ELSE Decimal(v.n)

\* line 66: env_value is not None; the variant is the truth value of env_value
IsSetTruthy(v) ==
    /\ v.type # "NoneType"
    /\ v.type = "str" => v.s # <<>>
    /\ v.type = "int" => v.n # 0
IsSet(v) == v.type # "NoneType"

\* lines 65-68: the loop over bot_config['env'].items(), todo the keys left
RECURSIVE MergeLoop(_, _, _)
MergeLoop(env, items, todo) ==
    IF todo = {} THEN env
    ELSE LET env_name == CHOOSE n \in todo : TRUE
             env_value == items[env_name]
             set == [n \in DOMAIN env \cup {env_name} |->
                        IF n = env_name THEN Str(env_value) ELSE env[n]]
         IN  MergeLoop(IF IsSet(env_value) THEN set ELSE env,
                       items, todo \ {env_name})

\* lines 62-68: os.environ.copy(), then the loop
MergeEnv(environ, items) == MergeLoop(environ, items, DOMAIN items)

\* maps from some of the names to the given values
PartialMaps(names, values) == UNION {[d -> values] : d \in SUBSET names}

InitEnv ==
    /\ SupervisorAside
    /\ bots = <<>>
    /\ wstate = <<>>
    /\ wresult = <<>>
    /\ os_environ \in PartialMaps(EnvNames, {<<"b">>})
    /\ spec_env \in PartialMaps(EnvNames, EnvValues)
    /\ bot_env = <<>>
    /\ run = <<>>
    /\ argv = <<>>
    /\ upc = <<"env">>
    /\ dirs = <<>>
    /\ repo = <<>>
    /\ wops = <<>>

\* lines 62-68
BuildEnv ==
    /\ upc = <<"env">>
    /\ bot_env' = MergeEnv(os_environ, spec_env)
    /\ upc' = <<"paths">>
    /\ UNCHANGED <<supVars, workVars, os_environ, spec_env, run, argv, dirs, repo, wops>>

SpecEnv == InitEnv /\ [][BuildEnv]_vars

(* ---------------------------------------------------------------------- *)
(* start_bot, lines 72 and 98-104: the command of the workload             *)
(* ---------------------------------------------------------------------- *)

\* the characters of the values of "run" that are explored
RunChars == {"m", "s", "h", ".", "/"}
RunPaths == UNION {[1..n -> RunChars] : n \in 0..MaxRunLen}

\* the components of a path, split at "/"
RECURSIVE Components(_, _, _)
Components(path, k, cur) ==
    IF k > Len(path) THEN <<cur>>
    ELSE IF path[k] = "/" THEN <<cur>> \o Components(path, k + 1, <<>>)
    ELSE Components(path, k + 1, Append(cur, path[k]))

\* the components pathlib keeps: not the empty ones, nor "."
RECURSIVE Parts(_)
Parts(comps) ==
    IF comps = <<>> THEN <<>>
    ELSE IF Head(comps) \in {<<>>, <<".">>} THEN Parts(Tail(comps))
    ELSE <<Head(comps)>> \o Parts(Tail(comps))

\* (bot_dir / run).name, line 72: the last component of run; a run without
\* components leaves bot_dir, whose name has no dot, or the root
FileName(path) ==
    LET parts == Parts(Components(path, 1, <<>>))
    IN  IF parts = <<>> THEN <<>> ELSE parts[Len(parts)]

\* PurePath.suffix: the name from its last dot, when that dot is neither the
\* first nor the last character
Suffix(name) ==
    LET dots == {j \in 1..Len(name) : name[j] = "."}
        last == CHOOSE j \in dots : \A k \in dots : k <= j
    IN  IF dots # {} /\ 1 < last /\ last < Len(name)
        THEN SubSeq(name, last, Len(name))
        ELSE <<>>

\* lines 99-104; the variant tests whether the path ends with "sh"
InterpreterEndsWithSh(path) ==
    IF Len(path) >= 2 /\ SubSeq(path, Len(path) - 1, Len(path)) = <<"s", "h">>
    THEN "bash" ELSE "python3"
Interpreter(path) ==
    IF Suffix(FileName(path)) = <<".", "s", "h">> THEN "bash" ELSE "python3"

InitRun ==
    /\ SupervisorAside
    /\ bots = <<>>
    /\ wstate = <<>>
    /\ wresult = <<>>
    /\ os_environ = <<>>
    /\ spec_env = <<>>
    /\ bot_env = <<>>
    /\ run \in RunPaths
    /\ argv = <<>>
    /\ upc = <<"exec">>
    /\ dirs = <<>>
    /\ repo = <<>>
    /\ wops = <<>>

\* lines 99-104: the command that is run
Dispatch ==
    /\ upc = <<"exec">>
    /\ argv' = <<Interpreter(run), run>>
    /\ upc' = <<"wait">>
    /\ UNCHANGED <<supVars, workVars, os_environ, spec_env, bot_env, run, dirs, repo, wops>>

SpecRun == InitRun /\ [][Dispatch]_vars

(* ---------------------------------------------------------------------- *)
(* start_bot, statement by statement, in NumUnits threads side by side     *)
(* ---------------------------------------------------------------------- *)

Units == 1..NumUnits

\* bot_dir: it exists or not, and the files it holds
Dir(exists, files) == [exists |-> exists, files |-> files]
Absent == Dir(FALSE, {})

\* what git clone leaves in bot_dir: the files of the repository and .git
Cloned(files) == Dir(TRUE, files \cup {".git"})

\* the files of the remote repositories that are explored
Repos == {{"main"}, {"main", "requirements.txt"}}

\* bot_dir before start_bot: absent, empty, left by another program, or left
\* by an earlier run of start_bot on a repository that has since changed or not
InitialDirs ==
    {Absent, Dir(TRUE, {}), Dir(TRUE, {"old", "requirements.txt"})}
    \cup {Cloned(files) : files \in Repos}

\* lines 76-82: mkdir when bot_dir does not exist, then rmtree when it
\* exists; the variant omits the rmtree
PrepareDirKeep(d) == IF ~d.exists THEN Dir(TRUE, {}) ELSE d
PrepareDir(d) ==
    LET made == IF ~d.exists THEN Dir(TRUE, {}) ELSE d
    IN  IF made.exists THEN Absent ELSE made

\* the operations of lines 76-82 on bot_dir
PrepareOps(d) ==
    (IF ~d.exists THEN <<(<<"mkdir", "ok">>)>> ELSE <<>>) \o <<(<<"rmtree", "ok">>)>>

\* git clone refuses a directory that exists and is not empty
CloneCanSucceed(d) == ~d.exists \/ d.files = {}

\* line 87: result.returncode != 0; the variant never sees a failure
CloneFailedNever(returncode) == FALSE
CloneFailed(returncode) == returncode # "0"

\* line 94: check=True raises CalledProcessError for a non-zero exit; the
\* variant is check=False
InstallRaisesNever(returncode) == FALSE
InstallRaises(returncode) == returncode # "0"

\* lines 101/104 and 107: the value start_bot returns after the workload's
\* process has exited with returncode; the variant reports a non-zero exit
\* as failure
ReturnValueChecked(returncode) == IF returncode = "0" THEN "log_file" ELSE "None"
ReturnValue(returncode) == "log_file"

\* bot_config['run'] of unit u
RunOf(u) == IF u % 2 = 1 THEN <<"m", ".", "s", "h">> ELSE <<"m", ".", "p", "y">>

InitBot ==
    /\ SupervisorAside
    /\ bots = [u \in Units |->
                 [name |-> PrefixedName("w1", "w1", u),
                  config |-> [keys |-> RequiredKeys, source |-> HttpsUrl]]]
    /\ wstate = [u \in Units |-> "PENDING"]
    /\ wresult = [u \in Units |-> "pending"]
    /\ os_environ = <<>>
    /\ spec_env = <<>>
    /\ bot_env = <<>>
    /\ run = <<>>
    /\ argv = <<>>
    /\ upc = [u \in Units |-> "begin"]
    /\ dirs \in [Units -> InitialDirs]
    /\ repo \in [Units -> Repos]
    /\ wops = [u \in Units |-> <<>>]

botFrame == <<supVars, os_environ, spec_env, bot_env, run, argv, repo, bots>>

\* start_bot of unit u ends: it returns r, or raises r
UnitEnds(u, st, r, ops) ==
    /\ upc' = [upc EXCEPT ![u] = "done"]
    /\ wstate' = [wstate EXCEPT ![u] = st]
    /\ wresult' = [wresult EXCEPT ![u] = r]
    /\ wops' = [wops EXCEPT ![u] = wops[u] \o ops]

\* start_bot of unit u goes on at statement pc
UnitGoes(u, pc, st, ops) ==
    /\ upc' = [upc EXCEPT ![u] = pc]
    /\ wstate' = [wstate EXCEPT ![u] = st]
    /\ wops' = [wops EXCEPT ![u] = wops[u] \o ops]
    /\ UNCHANGED wresult

\* exception e is raised inside the try block: lines 109-114
UnitRaises(u, e, ops) ==
    UnitEnds(u, "FAILED", Raised(e), ops \o <<(<<"raise", e>>)>>)

\* lines 59-73, outside the try block
BotBegin(u) ==
    /\ upc[u] = "begin"
    /\ \E e \in {"none", "Exception"} :
         IF e = "none" THEN UnitGoes(u, "prepare", "FETCHING", <<>>)
         ELSE UnitEnds(u, "FAILED", e, <<(<<"raise", e>>)>>)
    /\ UNCHANGED <<botFrame, dirs>>

\* lines 76-82
BotPrepare(u) ==
    /\ upc[u] = "prepare"
    /\ \E e \in {"none", "OSError"} :
         IF e = "none"
         THEN /\ dirs' = [dirs EXCEPT ![u] = PrepareDir(dirs[u])]
              /\ UnitGoes(u, "clone", "FETCHING", PrepareOps(dirs[u]))
         ELSE UnitRaises(u, e, <<>>) /\ UNCHANGED dirs
    /\ UNCHANGED botFrame

\* lines 84-92: git clone, the test of its returncode, the test for
\* requirements.txt
BotClone(u) ==
    /\ upc[u] = "clone"
    /\ \E out \in {"OSError", "Exception", "0", "1"} :
         IF out \in ExceptionClasses THEN UnitRaises(u, out, <<>>) /\ UNCHANGED dirs
         ELSE /\ out = "0" => CloneCanSucceed(dirs[u])
              /\ dirs' = [dirs EXCEPT ![u] = IF out = "0" THEN Cloned(repo[u]) ELSE @]
              /\ IF CloneFailed(out)
                 THEN UnitEnds(u, "FAILED", "None", <<(<<"clone", out>>)>>)
                 ELSE IF "requirements.txt" \in dirs'[u].files
                 THEN UnitGoes(u, "install", "INSTALLING", <<(<<"clone", out>>)>>)
                 ELSE UnitGoes(u, "open", "FETCHING", <<(<<"clone", out>>)>>)
    /\ UNCHANGED botFrame

\* line 94
BotInstall(u) ==
    /\ upc[u] = "install"
    /\ \E out \in {"OSError", "0", "1"} :
         IF out \in ExceptionClasses THEN UnitRaises(u, out, <<>>)
         ELSE IF InstallRaises(out)
         THEN UnitRaises(u, "CalledProcessError", <<(<<"pip", out>>)>>)
         ELSE UnitGoes(u, "open", "INSTALLING", <<(<<"pip", out>>)>>)
    /\ UNCHANGED <<botFrame, dirs>>

\* lines 97-98
BotOpen(u) ==
    /\ upc[u] = "open"
    /\ \E e \in {"none", "OSError"} :
         IF e = "none" THEN UnitGoes(u, "exec", wstate[u], <<(<<"open", "ok">>)>>)
         ELSE UnitRaises(u, e, <<>>)
    /\ UNCHANGED <<botFrame, dirs>>

\* lines 99-104: the workload's process is started
BotExec(u) ==
    /\ upc[u] = "exec"
    /\ \E e \in {"none", "OSError"} :
         IF e = "none"
         THEN UnitGoes(u, "wait", "RUNNING", <<(<<Interpreter(RunOf(u)), "started">>)>>)
         ELSE UnitRaises(u, e, <<>>)
    /\ UNCHANGED <<botFrame, dirs>>

\* lines 101/104 return when the process exits; lines 106-107
BotProcessExit(u) ==
    /\ upc[u] = "wait"
    /\ \E returncode \in {"0", "1"} :
         LET r == ReturnValue(returncode)
         IN  UnitEnds(u, IF r = "log_file" THEN "EXITED" ELSE "FAILED", r,
                      <<(<<"exit", returncode>>)>>)
    /\ UNCHANGED <<botFrame, dirs>>

NextBot ==
    \/ \E u \in Units : BotBegin(u)
    \/ \E u \in Units : BotPrepare(u)
    \/ \E u \in Units : BotClone(u)
    \/ \E u \in Units : BotInstall(u)
    \/ \E u \in Units : BotOpen(u)
    \/ \E u \in Units : BotExec(u)
    \/ \E u \in Units : BotProcessExit(u)

SpecBot == InitBot /\ [][NextBot]_vars

(* ---------------------------------------------------------------------- *)
(* Locks                                                                   *)
(* ---------------------------------------------------------------------- *)

\* the locks a thread holds: worker.py creates no lock and no statement of
\* stop_bot, signal_handler or start_bot acquires one
HeldLocks(thread) == {}

\* the threads that are executing statements that read or write
\* bot_processes: lines 132 and 118, run by the main thread in signal_handler
TableAccessors == IF sup_pc \in {"handler", "stopping"} THEN {"main"} ELSE {}

(* ---------------------------------------------------------------------- *)
(* Properties                                                              *)
(* ---------------------------------------------------------------------- *)

\* a terminate request for the process of bot_name is in the log
TerminateSent(lg, bot_name) ==
    \E k \in 1..Len(lg) : lg[k][1] = "terminate" /\ lg[k][2] = bot_name
KillSent(lg, bot_name) ==
    \E k \in 1..Len(lg) : lg[k][1] = "kill" /\ lg[k][2] = bot_name

\* C1: when signal_handler returns, every workload that was RUNNING when the
\* signal was delivered has been sent a terminate request.
C1_RunningAreStopped ==
    [][(sup_pc = "handler" /\ sup_pc' # "handler")
         => \A i \in running_at_signal : TerminateSent(stop_log', Name(i))]_vars

\* C2: once all N workloads are RUNNING, bot_processes holds exactly N
\* entries, one for each loaded name.
C2_TableHoldsAllRunning ==
    (\A i \in Workloads : wstate[i] = "RUNNING")
      => /\ Len(bot_processes) = N
         /\ \A i \in Workloads :
              Cardinality({k \in 1..Len(bot_processes) : bot_processes[k] = Name(i)}) = 1

\* C3: no failure of a workload ends main: no exception of a future unwinds
\* the main thread, and the process ends with an error only for an invalid
\* configuration or for the pool that cannot be built.
C3_NoWorkloadFailureEscapes ==
    /\ unwinding # "error"
    /\ exit_kind = "error" => exit_cause \in {"config", "pool"}

\* C3 witness: main completed although one future raised and another
\* returned failure.
C3_Witness ==
    /\ sup_pc = "exited"
    /\ exit_cause = "completed"
    /\ \E i, j \in Workloads : wresult[i] = "Exception" /\ wresult[j] = "None"

\* C4: the step that takes workload i to EXITED or FAILED changes neither the
\* state nor the result of another workload, and sends no stop request.
C4_SiblingsUntouched ==
    [][\A i \in Workloads :
         (wstate[i] \notin Final /\ wstate'[i] \in Final)
           => /\ \A j \in Workloads \ {i} :
                   wstate'[j] = wstate[j] /\ wresult'[j] = wresult[j]
              /\ stop_log' = stop_log
              /\ procs' = procs]_vars

\* C4 witness: a workload has FAILED while a sibling is RUNNING, its future
\* still pending.
C4_Witness ==
    \E i, j \in Workloads :
        /\ i # j
        /\ wstate[i] = "FAILED"
        /\ wstate[j] = "RUNNING"
        /\ wresult[j] = "pending"

\* C5: each loaded workload is submitted exactly once to a pool of N threads,
\* and a queued work item always finds a thread that is not running a
\* sibling.
C5_OneThreadPerWorkload ==
    /\ \A a, b \in 1..Len(futures) : a # b => futures[a] # futures[b]
    /\ (~signalled /\ sup_pc \in {"result", "pool_exit", "completed"})
         => {futures[k] : k \in 1..Len(futures)} = Workloads
    /\ sup_pc \in {"submit", "result", "pool_exit", "completed"} => max_workers = N
    /\ Len(work_queue) <= num_threads - BusyThreads

\* C5 witness: N >= 2 workloads are all RUNNING at the same time.
C5_Witness ==
    /\ N >= 2
    /\ \A i \in Workloads : wstate[i] = "RUNNING"

C7_SignalLeadsToExitZero ==
    (sup_pc = "handler") ~> (sup_pc = "exited" /\ exit_kind = "ok")

LacksRequired(entry) == \E key \in {"source", "run", "env"} : key \notin entry.keys

\* C9: when an entry of the document lacks source, run or env, no workload
\* is returned, start_bot is never invoked, and the process ends during the
\* load, with the configuration error unless a signal ended it before.
C9_AllOrNothingLoad ==
    (\E k \in 1..Len(config) : LacksRequired(config[k]))
      => /\ bots = <<>>
         /\ futures = <<>>
         /\ wstate = <<>>
         /\ sup_pc \in {"load", "exited"}
         /\ sup_pc = "exited" => (exit_cause = "config" \/ exit_kind = "signal")

\* C9 witness: the load failed on an entry that lacks a key, after a valid
\* entry had been accepted.
C9_Witness ==
    /\ sup_pc = "exited"
    /\ exit_cause = "config"
    /\ load_idx >= 2
    /\ Len(new_bots) = load_idx - 1
    /\ LacksRequired(config[load_idx])
    /\ bots = <<>>

\* the schemes of network URLs
NetworkSchemes == {<<"h", "t", "t", "p">>, <<"h", "t", "t", "p", "s">>,
                   <<"s", "s", "h">>, <<"g", "i", "t">>, <<"f", "t", "p">>}
HasNetworkScheme(source) ==
    \E scheme \in NetworkSchemes : StartsWith(source, scheme \o <<":", "/", "/">>)

\* C10: every entry that load_config accepts has a source that starts with a
\* network scheme.
C10_AcceptedSourceHasScheme ==
    \A k \in 1..Len(new_bots) : HasNetworkScheme(new_bots[k].config.source)

\* C11: the environment given to the workload is os.environ overridden by
\* exactly the entries of env whose value is not null: such an entry sets
\* its variable to its value (a number as its decimal text), an entry with
\* a null value leaves its variable as os.environ has it, set or unset, and
\* every other variable of os.environ is kept.
C11_EnvMergeLaw ==
    upc = <<"paths">> =>
      \A n \in EnvNames :
        IF n \in DOMAIN spec_env /\ spec_env[n] # NoneValue
        THEN /\ n \in DOMAIN bot_env
             /\ spec_env[n].type = "str" => bot_env[n] = spec_env[n].s
             /\ spec_env[n] = IntValue(0) => bot_env[n] = <<"0">>
             /\ spec_env[n] = IntValue(27) => bot_env[n] = <<"2", "7">>
        ELSE /\ n \in DOMAIN bot_env <=> n \in DOMAIN os_environ
             /\ n \in DOMAIN os_environ => bot_env[n] = os_environ[n]

\* C11 witness: one variable is overridden by an empty string, one with a
\* null value keeps its value of os.environ, and one that env does not name
\* is retained.
C11_Witness ==
    /\ upc = <<"paths">>
    /\ \E a, b, c \in EnvNames :
         /\ a \in DOMAIN os_environ /\ a \in DOMAIN spec_env
         /\ spec_env[a] = StrValue(<<>>) /\ bot_env[a] = <<>>
         /\ b \in DOMAIN os_environ /\ b \in DOMAIN spec_env
         /\ spec_env[b] = NoneValue /\ bot_env[b] = <<"b">>
         /\ c \in DOMAIN os_environ /\ c \notin DOMAIN spec_env
         /\ bot_env[c] = <<"b">>

\* the file name of a path: what follows its last "/", trailing "/" and
\* "/." aside
RECURSIVE BaseName(_)
BaseName(path) ==
    IF path = <<>> THEN <<>>
    ELSE IF path[Len(path)] = "/" THEN BaseName(SubSeq(path, 1, Len(path) - 1))
    ELSE IF path = <<".">> THEN <<>>
    ELSE IF Len(path) >= 2 /\ SubSeq(path, Len(path) - 1, Len(path)) = <<"/", ".">>
    THEN BaseName(SubSeq(path, 1, Len(path) - 2))
    ELSE LET slashes == {j \in 1..Len(path) : path[j] = "/"}
         IN  IF slashes = {} THEN path
             ELSE SubSeq(path, (CHOOSE j \in slashes : \A k \in slashes : k <= j) + 1,
                         Len(path))

\* a file name with the .sh extension: a non-empty stem followed by ".sh"
HasShExtension(name) ==
    /\ Len(name) > 3
    /\ SubSeq(name, Len(name) - 2, Len(name)) = <<".", "s", "h">>

\* C12: the command is bash when the file name of run has the .sh
\* extension and python3 otherwise, applied to run.
C12_EntryPointDispatch ==
    upc = <<"wait">> =>
      /\ argv[2] = run
      /\ argv[1] = IF HasShExtension(BaseName(run)) THEN "bash" ELSE "python3"

\* C12 witness: one of start.sh-like run, a run with another extension, and
\* a run without extension has been dispatched, the first to bash.
C12_Witness ==
    /\ upc = <<"wait">>
    /\ run = <<"m", ".", "s", "h">>
    /\ argv = <<"bash", run>>

\* the operations start_bot of unit u has carried out, and those named op
OpsOf(ops) == {ops[k] : k \in DOMAIN ops}
Named(ops, op) == {k \in DOMAIN ops : ops[k][1] = op}

\* C13: a unit whose git clone exited non-zero has returned None without
\* raising, has cloned exactly once, and has run neither pip nor the
\* workload nor opened the log file.
C13_FetchFailureReturns ==
    \A u \in Units :
      (\E k \in Named(wops[u], "clone") : wops[u][k][2] # "0") =>
        /\ upc[u] = "done"
        /\ wstate[u] = "FAILED"
        /\ wresult[u] = "None"
        /\ Cardinality(Named(wops[u], "clone")) = 1
        /\ \A op \in {"pip", "open", "bash", "python3", "exit", "raise"} :
             Named(wops[u], op) = {}

\* C13 witness: a unit has returned None after one failed clone.
C13_Witness ==
    \E u \in Units :
      /\ <<"clone", "1">> \in OpsOf(wops[u])
      /\ upc[u] = "done"
      /\ wresult[u] = "None"

\* C14: pip starts only in a unit whose clone exited 0 and whose directory
\* holds requirements.txt; the step in which pip exits non-zero ends that
\* unit as FAILED with None and changes nothing of any other unit; a unit
\* whose pip exited non-zero does nothing more.
C14_InstallFailureIsLocal ==
    [][\A u \in Units :
         /\ (Named(wops[u], "pip") = {} /\ Named(wops'[u], "pip") # {}) =>
              /\ <<"clone", "0">> \in OpsOf(wops[u])
              /\ dirs[u].exists
              /\ "requirements.txt" \in dirs[u].files
         /\ (<<"pip", "1">> \notin OpsOf(wops[u]) /\ <<"pip", "1">> \in OpsOf(wops'[u])) =>
              /\ wstate'[u] = "FAILED"
              /\ wresult'[u] = "None"
              /\ upc'[u] = "done"
              /\ \A v \in Units \ {u} :
                   /\ upc'[v] = upc[v]
                   /\ wstate'[v] = wstate[v]
                   /\ wresult'[v] = wresult[v]
                   /\ wops'[v] = wops[v]
                   /\ dirs'[v] = dirs[v]
         /\ <<"pip", "1">> \in OpsOf(wops[u]) =>
              /\ wops'[u] = wops[u]
              /\ wstate'[u] = "FAILED"
              /\ wresult'[u] = "None"
              /\ \A op \in {"open", "bash", "python3"} : Named(wops'[u], op) = {}
    ]_vars

\* C14 witness: one unit has failed in pip while another runs its workload.
C14_Witness ==
    \E u, v \in Units :
      /\ u # v
      /\ <<"pip", "1">> \in OpsOf(wops[u])
      /\ wstate[u] = "FAILED"
      /\ wstate[v] = "RUNNING"

\* C16: after lines 76-82 the directory holds no file; after a clone that
\* exited 0 it holds the repository and nothing else, whatever it held
\* before, so units of the same repository end with the same directory.
C16_PreparationIsClean ==
    /\ \A u \in Units :
         /\ upc[u] = "clone" => dirs[u].files = {}
         /\ <<"clone", "0">> \in OpsOf(wops[u]) =>
              /\ dirs[u].exists
              /\ dirs[u].files = repo[u] \cup {".git"}
    /\ \A u, v \in Units :
         (/\ <<"clone", "0">> \in OpsOf(wops[u])
          /\ <<"clone", "0">> \in OpsOf(wops[v])
          /\ repo[u] = repo[v]) => dirs[u] = dirs[v]

\* C16 witness: two units of the same repository, one whose directory was
\* absent and one whose directory existed, have both cloned it.
C16_Witness ==
    \E u, v \in Units :
      /\ repo[u] = repo[v]
      /\ <<"clone", "0">> \in OpsOf(wops[u])
      /\ <<"clone", "0">> \in OpsOf(wops[v])
      /\ Named(wops[u], "mkdir") # {}
      /\ Named(wops[v], "mkdir") = {}
      /\ dirs[u] = dirs[v]

\* C19: a unit has a result only when it is done; the result is the log
\* path exactly when clone exited 0, pip did not run or exited 0, and no
\* OSError was raised; then the process has exited, with either status.
C19_SuccessResult ==
    \A u \in Units :
      /\ upc[u] # "done" => wresult[u] = "pending"
      /\ upc[u] = "done" =>
           (wresult[u] = "log_file" <=>
              /\ <<"clone", "0">> \in OpsOf(wops[u])
              /\ Named(wops[u], "pip") = {} \/ <<"pip", "0">> \in OpsOf(wops[u])
              /\ <<"raise", "OSError">> \notin OpsOf(wops[u]))
      /\ wresult[u] = "log_file" =>
           /\ Named(wops[u], "exit") # {}
           /\ wstate[u] = "EXITED"
      /\ Named(wops[u], "exit") # {} => wresult[u] = "log_file"

\* C19 witness: a unit whose process exited with status 1 returned the log
\* path.
C19_Witness ==
    \E u \in Units :
      /\ <<"exit", "1">> \in OpsOf(wops[u])
      /\ wresult[u] = "log_file"
      /\ wstate[u] = "EXITED"

\* C15: one stop_bot on a tracked live process first sends terminate, at
\* the time it is called; it sends kill, 5 later, exactly when the process
\* ignores terminate, and nothing more otherwise; the loop then goes on with
\* the next identity, and ends with exit status 0.
C15_StopProtocol ==
    [][/\ (sup_pc = "stopping" /\ stop_keys # <<>>) =>
            LET bot_name == Head(stop_keys)
                sent == SubSeq(stop_log', Len(stop_log) + 1, Len(stop_log'))
            IN  /\ procs[bot_name].alive =>
                     /\ sent # <<>>
                     /\ sent[1] = <<"terminate", bot_name, clock>>
                     /\ procs[bot_name].onterm = "ignores" =>
                          sent = <<sent[1], <<"kill", bot_name, clock + 5>> >>
                     /\ procs[bot_name].onterm # "ignores" => Len(sent) = 1
                /\ stop_keys' = Tail(stop_keys)
                /\ sup_pc' = "stopping"
                /\ exit_kind' = "none"
       /\ (sup_pc = "stopping" /\ stop_keys = <<>>) =>
            /\ sup_pc' = "exited"
            /\ exit_kind' = "ok"
    ]_vars

\* C15 witness: the sequence has ended with status 0 after killing one
\* process and then stopping, without a kill, one that exited late within
\* the bound.
C15_Witness ==
    /\ sup_pc = "exited"
    /\ exit_kind = "ok"
    /\ Len(bot_processes) >= 2
    /\ procs[bot_processes[1]].onterm = "ignores"
    /\ KillSent(stop_log, bot_processes[1])
    /\ procs[bot_processes[2]].onterm = "lingers"
    /\ TerminateSent(stop_log, bot_processes[2])
    /\ ~KillSent(stop_log, bot_processes[2])

C18_EmptyConfigCompletes ==
    (config = <<>> /\ ~signalled) =>
      /\ sup_pc # "load" => bots = <<>>
      /\ futures = <<>>
      /\ sup_pc = "exited" => exit_kind = "ok" /\ exit_cause = "completed"

\* C20: without a signal, main has completed only when every loaded
\* workload is EXITED or FAILED, and a supervisor that has loaded its
\* workloads ends in no other way than by completing.
C20_CompletesIffAllFinished ==
    ~signalled =>
      /\ sup_pc = "completed" \/ exit_cause = "completed" =>
           \A i \in Workloads : wstate[i] \in Final
      /\ (sup_pc = "exited" /\ exit_cause # "config") => exit_cause = "completed"

====
